---- MODULE Spec2Model ----
(***************************************************************************)
(* Shard connection orchestrator of discord.ext.vbu (custom_bot.py):       *)
(* Bot.launch_shard, Bot.launch_shards and Bot.connect, together with the  *)
(* shard manager (coordinator) they talk to and the gateway library they   *)
(* delegate handshakes to.                                                 *)
(***************************************************************************)
EXTENDS Integers, Sequences, FiniteSets, TLC

\* ---------------------------------------------------------------- bounds
MaxShards == 2      \* shard_count ranges over 1..MaxShards
MaxEvents == 2      \* lifecycle events the gateway library emits in one run
MaxRefusals == 1    \* refused open_connection calls in one run
MaxUsers == 2       \* user ids range over 1..MaxUsers

\* ------------------------------------------------------ program constants
NormalClosure == 1000
PrivilegedIntentsCode == 4014

\* close codes a ConnectionClosed error may carry: the two the code names and
\* one representative of every other code
CloseCodes == {NormalClosure, PrivilegedIntentsCode, 4000}

\* self.config['shard_manager'].get('enabled'): set true, set false, or no key
EnabledChoices == {"true", "false", "absent"}

VARIABLES
    enabled,          \* config value of shard_manager.enabled
    shard_count,      \* self.shard_count
    launch,           \* position of each launch_shard task
    shards_launched,  \* self._connection.shards_launched
    queue,            \* self._AutoShardedClient__queue
    emitted,          \* number of events put on the queue so far
    loop,             \* position of connect()
    item,             \* the event connect() is handling (its last, once it has ended)
    closed,           \* self.is_closed()
    error,            \* the exception connect() raised, "none" if none
    pending,          \* coordinator: requests not yet granted, in arrival order
    holder,           \* coordinator: tickets granted and not yet released
    foreign,          \* position of each shard of another process
    refusals,         \* refused open_connection calls so far
    opened,           \* open_connection calls made by this process
    asked,            \* per caller and shard: ask_to_connect calls sent
    granted,          \* per caller and shard: ask_to_connect calls granted
    released,         \* per caller and shard: done_connecting calls sent
    elevated_owner_ids,  \* bot._elevated_owner_ids
    owner_sudo_tasks,    \* keys of bot._owner_sudo_tasks: owners with a timed_unsu task
    blacklisted_users,   \* bot.blacklisted_users: user id -> reason
    message              \* the message and interaction handler tasks in flight

\* the state of the owner cog: sudo and the blacklist
owner_vars == <<elevated_owner_ids, owner_sudo_tasks, blacklisted_users, message>>

\* the state of the shard orchestration
shard_vars == <<enabled, shard_count, launch, shards_launched, queue, emitted, loop,
                item, closed, error, pending, holder, foreign, refusals, opened,
                asked, granted, released>>

vars == <<shard_vars, owner_vars>>

\* --------------------------------------------------------------- helpers
Shards == 0 .. (shard_count - 1)
\* the fleet of the launch scenario: launch_shards for shards [0, 1, 2, 3]
FleetShardIds == <<0, 1, 2, 3>>
FleetSize == IF MaxShards > Len(FleetShardIds) THEN MaxShards ELSE Len(FleetShardIds)
AllShards == 0 .. (FleetSize - 1)
\* the shard of another process of the fleet that asks the coordinator: the
\* fleet's next shard id
ForeignIds == {MaxShards}
Callers == {"launch", "loop"}

\* shard_ids = self.shard_ids or range(self.shard_count)
shard_ids == [i \in 1 .. shard_count |-> i - 1]

\* faulty variant of initial: every launch task is flagged initial
initial_all(s) == s \in Shards

\* launch_shards: initial = shard_id == shard_ids[0]
initial(s) == s = shard_ids[1]

\* launch_shard / launch_shards: shard_manager_config.get('enabled', False)
launch_enabled == enabled = "true"

\* faulty variant of connect_enabled: get_shard_manager opens a connection whatever
\* the configuration says
connect_enabled_always == TRUE

\* connect: shard_manager_config.get('enabled', True)
connect_enabled == enabled # "false"

NoItem == [type |-> "none", shard |-> 0, code |-> 0]

\* the lifecycle events of discord.shard.EventType; code 0 stands for an error
\* that is no ConnectionClosed
Events ==
    [type : {"close"}, shard : {0}, code : CloseCodes \cup {0}]
    \cup [type : {"identify", "resume", "reconnect"}, shard : AllShards, code : {0}]
    \cup [type : {"terminate", "clean_close"}, shard : {0}, code : {0}]

Ticket(o, s, p) == [owner |-> o, shard |-> s, priority |-> p]

Bump(f, o, s) == [f EXCEPT ![o][s] = @ + 1]

ZeroCount == [o \in Callers |-> [s \in AllShards |-> 0]]

\* ------------------------------------------------------------ owner cog
Users == 1 .. MaxUsers

\* self.config["owners"]: the true owners, who may use su, unsu and sudo
Owners == {1}

\* the handler tasks the event loop runs at the same time
Handlers == {"a", "b"}

Commands == {"su", "unsu", "sudo", "blacklist_add", "blacklist_remove", "other"}

\* blacklisted_users.get(user) for a user who is not in the table
NoReason == "None"
Reasons == {"spam", "abuse"}

\* the value of bot._sudo_ctx_var in a context: not set, or set to a set of ids
Unset == <<>>
SetTo(ids) == <<ids>>

NoMessage == [pc |-> "idle", author |-> 1, cmd |-> "other", kind |-> "message",
              var |-> Unset, token |-> Unset, raised |-> FALSE]

InitOwner ==
    /\ elevated_owner_ids = {}
    /\ owner_sudo_tasks = {}
    /\ blacklisted_users = [u \in Users |-> NoReason]
    /\ message = [m \in Handlers |-> NoMessage]

\* ------------------------------------------------------------------ Init
Init ==
    /\ enabled \in EnabledChoices
    /\ shard_count \in 1 .. MaxShards
    /\ launch = [s \in AllShards |-> "none"]
    /\ shards_launched = FALSE
    /\ queue = <<>>
    /\ emitted = 0
    /\ loop = "init"
    /\ item = NoItem
    /\ closed = FALSE
    /\ error = "none"
    /\ pending = <<>>
    /\ holder = {}
    /\ foreign = [f \in ForeignIds |-> "idle"]
    /\ refusals = 0
    /\ opened = 0
    /\ asked = ZeroCount
    /\ granted = ZeroCount
    /\ released = ZeroCount
    /\ InitOwner

\* faulty variant of NextIndex: the oldest request is served, whatever its priority
NextIndex_fifo ==
    CHOOSE i \in 1 .. Len(pending) : \A j \in 1 .. Len(pending) : i <= j

\* ------------------------------------------------- coordinator (arbiter)
\* The shard manager grants one slot at a time; a priority request is served
\* ahead of the pending non-priority ones, each class in arrival order.
NextIndex ==
    IF \E i \in 1 .. Len(pending) : pending[i].priority
    THEN CHOOSE i \in 1 .. Len(pending) :
            /\ pending[i].priority
            /\ \A j \in 1 .. (i - 1) : ~pending[j].priority
    ELSE 1

Remove(seq, i) == SubSeq(seq, 1, i - 1) \o SubSeq(seq, i + 1, Len(seq))

Grant ==
    /\ holder = {}
    /\ pending # <<>>
    /\ LET t == pending[NextIndex]
       IN  /\ holder' = {t}
           /\ pending' = Remove(pending, NextIndex)
           /\ granted' = IF t.owner \in Callers
                         THEN Bump(granted, t.owner, t.shard)
                         ELSE granted
    /\ UNCHANGED <<owner_vars, enabled, shard_count, launch, shards_launched, queue, emitted,
                   loop, item, closed, error, foreign, refusals, opened, asked, released>>

\* ShardManagerClient.open_connection: the connection is accepted or refused
\* (ConnectionRefusedError)
OpenOutcomes == IF refusals < MaxRefusals THEN {"accepted", "refused"} ELSE {"accepted"}

\* ShardManagerClient.ask_to_connect(shard_id, priority): the request is sent
\* and the caller suspends until it is granted
SendAsk(o, s, p) ==
    /\ pending' = Append(pending, Ticket(o, s, p))
    /\ asked' = Bump(asked, o, s)

\* ShardManagerClient.done_connecting(shard_id): frees the caller's slot
SendDone(o, s) ==
    /\ holder' = {t \in holder : ~(t.owner = o /\ t.shard = s)}
    /\ released' = Bump(released, o, s)

Admitted(o, s) == \E t \in holder : t.owner = o /\ t.shard = s

\* a shard of another process, launching: asks, identifies once admitted,
\* reports done
ForeignAsk(f) ==
    /\ foreign[f] = "idle"
    /\ pending' = Append(pending, Ticket("foreign", f, FALSE))
    /\ foreign' = [foreign EXCEPT ![f] = "asking"]
    /\ UNCHANGED <<owner_vars, enabled, shard_count, launch, shards_launched, queue, emitted,
                   loop, item, closed, error, holder, refusals, opened, asked, granted, released>>

ForeignIdentify(f) ==
    /\ foreign[f] = "asking"
    /\ Admitted("foreign", f)
    /\ foreign' = [foreign EXCEPT ![f] = "identifying"]
    /\ UNCHANGED <<owner_vars, enabled, shard_count, launch, shards_launched, queue, emitted,
                   loop, item, closed, error, pending, holder, refusals, opened, asked, granted, released>>

ForeignDone(f) ==
    /\ foreign[f] = "identifying"
    /\ holder' = {t \in holder : ~(t.owner = "foreign" /\ t.shard = f)}
    /\ foreign' = [foreign EXCEPT ![f] = "idle"]
    /\ UNCHANGED <<owner_vars, enabled, shard_count, launch, shards_launched, queue, emitted,
                   loop, item, closed, error, pending, refusals, opened, asked, granted, released>>

\* ------------------------------------------------------------ the gateway
\* The handshake delegates of the gateway library (super().launch_shard,
\* shard.reidentify, shard.reconnect) return or raise.
HandshakeOutcomes == {"ok", "raise"}

\* ----------------------------------------------------------- launch_shard
\* launch_shard, coordination disabled: return await super().launch_shard(...)
\* super().launch_shards() launches the shards one after the other.
LaunchDelegate(s) ==
    /\ launch[s] = "start"
    /\ ~launch_enabled
    /\ \A r \in Shards : r < s => launch[r] = "done"
    /\ launch' = [launch EXCEPT ![s] = "identifying"]
    /\ UNCHANGED <<owner_vars, enabled, shard_count, shards_launched, queue, emitted, loop,
                   item, closed, error, pending, holder, foreign, refusals,
                   opened, asked, granted, released>>

\* faulty variant of LaunchOpen: a refused attempt leaves an admission request behind
LaunchOpen_ticket(s) ==
    /\ launch[s] \in {"start", "retry"}
    /\ launch_enabled
    /\ opened' = opened + 1
    /\ \E r \in OpenOutcomes :
          IF r = "refused"
          THEN /\ launch' = [launch EXCEPT ![s] = "retry"]
               /\ refusals' = refusals + 1
               /\ asked' = Bump(asked, "launch", s)
          ELSE /\ launch' = [launch EXCEPT ![s] = "connected"]
               /\ UNCHANGED <<refusals, asked>>
    /\ UNCHANGED <<owner_vars, enabled, shard_count, shards_launched, queue, emitted, loop,
                   item, closed, error, pending, holder, foreign, granted,
                   released>>

\* launch_shard: ShardManagerClient.open_connection(host, port); on
\* ConnectionRefusedError it logs and calls itself again
LaunchOpen(s) ==
    /\ launch[s] \in {"start", "retry"}
    /\ launch_enabled
    /\ opened' = opened + 1
    /\ \E r \in OpenOutcomes :
          IF r = "refused"
          THEN /\ launch' = [launch EXCEPT ![s] = "retry"]
               /\ refusals' = refusals + 1
          ELSE /\ launch' = [launch EXCEPT ![s] = "connected"]
               /\ UNCHANGED refusals
    /\ UNCHANGED <<owner_vars, enabled, shard_count, shards_launched, queue, emitted, loop,
                   item, closed, error, pending, holder, foreign, asked,
                   granted, released>>

\* launch_shard: await shard_manager.ask_to_connect(shard_id), request sent
LaunchAsk(s) ==
    /\ launch[s] = "connected"
    /\ SendAsk("launch", s, FALSE)
    /\ launch' = [launch EXCEPT ![s] = "asking"]
    /\ UNCHANGED <<owner_vars, enabled, shard_count, shards_launched, queue, emitted, loop,
                   item, closed, error, holder, foreign, refusals, opened, granted, released>>

\* faulty variant of LaunchIdentify: the handshake begins without awaiting the grant
LaunchIdentify_unadmitted(s) ==
    /\ launch[s] = "asking"
    /\ launch' = [launch EXCEPT ![s] = "identifying"]
    /\ UNCHANGED <<owner_vars, enabled, shard_count, shards_launched, queue, emitted, loop,
                   item, closed, error, pending, holder, foreign, refusals,
                   opened, asked, granted, released>>

\* launch_shard: ask_to_connect returns, super().launch_shard(...) begins
LaunchIdentify(s) ==
    /\ launch[s] = "asking"
    /\ Admitted("launch", s)
    /\ launch' = [launch EXCEPT ![s] = "identifying"]
    /\ UNCHANGED <<owner_vars, enabled, shard_count, shards_launched, queue, emitted, loop,
                   item, closed, error, pending, holder, foreign, refusals,
                   opened, asked, granted, released>>

\* launch_shard: super().launch_shard(...) returns or raises; an exception
\* leaves launch_shard at once
LaunchHandshake(s) ==
    /\ launch[s] = "identifying"
    /\ \E r \in HandshakeOutcomes :
          launch' = [launch EXCEPT ![s] =
                        IF r = "raise" THEN "raised"
                        ELSE IF launch_enabled THEN "releasing" ELSE "done"]
    /\ UNCHANGED <<owner_vars, enabled, shard_count, shards_launched, queue, emitted, loop,
                   item, closed, error, pending, holder, foreign, refusals,
                   opened, asked, granted, released>>

\* launch_shard: await shard_manager.done_connecting(shard_id)
LaunchRelease(s) ==
    /\ launch[s] = "releasing"
    /\ SendDone("launch", s)
    /\ launch' = [launch EXCEPT ![s] = "done"]
    /\ UNCHANGED <<owner_vars, enabled, shard_count, shards_launched, queue, emitted, loop,
                   item, closed, error, pending, foreign, refusals, opened, asked, granted>>

\* ---------------------------------------------------------- launch_shards
\* connect: await self.launch_shards(); launch_shards creates one task per
\* shard id (or hands over to super().launch_shards() when disabled)
LaunchShards ==
    /\ loop = "init"
    /\ loop' = "launching"
    /\ launch' = [s \in AllShards |-> IF s \in Shards THEN "start" ELSE "none"]
    /\ UNCHANGED <<owner_vars, enabled, shard_count, shards_launched, queue, emitted, item,
                   closed, error, pending, holder, foreign, refusals, opened, asked, granted, released>>

\* faulty variant of Finished: a launch task counts as finished as soon as it
\* has been created
Finished_created(s) == launch[s] # "none"

Finished(s) == launch[s] \in {"done", "raised"}

\* launch_shards: asyncio.wait(shard_launch_tasks) returns once every task has
\* finished, whatever its outcome, and the flag is set; the library's
\* sequential launch_shards lets a launch's exception through
LaunchShardsReturn ==
    /\ loop = "launching"
    /\ IF launch_enabled
       THEN /\ \A s \in Shards : Finished(s)
            /\ shards_launched' = TRUE
            /\ loop' = "top"
            /\ UNCHANGED error
       ELSE \/ /\ \A s \in Shards : launch[s] = "done"
               /\ shards_launched' = TRUE
               /\ loop' = "top"
               /\ UNCHANGED error
            \/ /\ \E s \in Shards : launch[s] = "raised"
               /\ loop' = "raised"
               /\ error' = "launch_error"
               /\ UNCHANGED shards_launched
    /\ UNCHANGED <<owner_vars, enabled, shard_count, launch, queue, emitted, item, closed,
                   pending, holder, foreign, refusals, opened, asked,
                   granted, released>>

\* ------------------------------------------------------- gateway events
\* The gateway library puts a lifecycle event on the queue; a shard emits
\* events once it has been launched, and none after connect() has ended.
Enqueue ==
    /\ emitted < MaxEvents
    /\ loop \notin {"returned", "raised"}
    /\ \E e \in Events :
          /\ e.shard \in Shards
          /\ launch[e.shard] = "done"
          /\ queue' = Append(queue, e)
    /\ emitted' = emitted + 1
    /\ UNCHANGED <<owner_vars, enabled, shard_count, launch, shards_launched, loop, item,
                   closed, error, pending, holder, foreign, refusals, opened, asked, granted, released>>

\* something else of the program (a command, a signal handler) closes the client
ExternalClose ==
    /\ ~closed
    /\ loop \notin {"init", "returned", "raised"}
    /\ closed' = TRUE
    /\ UNCHANGED <<owner_vars, enabled, shard_count, launch, shards_launched, queue, emitted,
                   loop, item, error, pending, holder, foreign, refusals,
                   opened, asked, granted, released>>

\* ---------------------------------------------------------------- connect
\* faulty variant of LoopTop: the loop waits for the next event without testing
\* is_closed()
LoopTop_ignores_closed ==
    /\ loop = "top"
    /\ loop' = "get"
    /\ UNCHANGED <<owner_vars, enabled, shard_count, launch, shards_launched, queue, emitted,
                   item, closed, error, pending, holder, foreign, refusals,
                   opened, asked, granted, released>>

\* connect: while not self.is_closed()
LoopTop ==
    /\ loop = "top"
    /\ loop' = IF closed THEN "returned" ELSE "get"
    /\ UNCHANGED <<owner_vars, enabled, shard_count, launch, shards_launched, queue, emitted,
                   item, closed, error, pending, holder, foreign, refusals,
                   opened, asked, granted, released>>

\* faulty variant of CloseError: the test on the normal closure code is inverted
CloseError_inverted(e) ==
    IF e.code # 0
    THEN IF e.code = NormalClosure THEN "item_error" ELSE "none"
    ELSE "none"

\* faulty variant of CloseError: a close code that is not the normal one is absorbed
CloseError_absorbed(e) == "none"

\* the error a close event leaves connect() with ("none": connect returns)
CloseError(e) ==
    IF e.code # 0
    THEN IF e.code # NormalClosure THEN "item_error"
         ELSE IF e.code = PrivilegedIntentsCode THEN "PrivilegedIntentsRequired"
         ELSE "none"
    ELSE "none"

\* faulty variant of Dequeue: the error of a terminate event is swallowed and
\* the loop goes on
Dequeue_terminate_absorbed ==
    /\ loop = "get"
    /\ queue # <<>>
    /\ item' = Head(queue)
    /\ queue' = Tail(queue)
    /\ LET e == Head(queue)
       IN  CASE e.type = "close" ->
                    /\ closed' = TRUE
                    /\ error' = CloseError(e)
                    /\ loop' = IF CloseError(e) = "none" THEN "returned" ELSE "raised"
             [] e.type = "identify" ->
                    /\ loop' = IF connect_enabled THEN "id_open" ELSE "id_hand"
                    /\ UNCHANGED <<closed, error>>
             [] e.type = "resume" ->
                    /\ loop' = "resume_hand"
                    /\ UNCHANGED <<closed, error>>
             [] e.type = "reconnect" ->
                    /\ loop' = "reconnect_hand"
                    /\ UNCHANGED <<closed, error>>
             [] e.type = "terminate" ->
                    /\ closed' = TRUE
                    /\ loop' = "top"
                    /\ UNCHANGED error
             [] e.type = "clean_close" ->
                    /\ loop' = "returned"
                    /\ UNCHANGED <<closed, error>>
    /\ UNCHANGED <<owner_vars, enabled, shard_count, launch, shards_launched, emitted,
                   pending, holder, foreign, refusals, opened, asked,
                   granted, released>>

\* faulty variant of Dequeue: a resume event goes through the admission of the
\* identify branch
Dequeue_resume_gated ==
    /\ loop = "get"
    /\ queue # <<>>
    /\ item' = Head(queue)
    /\ queue' = Tail(queue)
    /\ LET e == Head(queue)
       IN  CASE e.type = "close" ->
                    /\ closed' = TRUE
                    /\ error' = CloseError(e)
                    /\ loop' = IF CloseError(e) = "none" THEN "returned" ELSE "raised"
             [] e.type = "identify" ->
                    /\ loop' = IF connect_enabled THEN "id_open" ELSE "id_hand"
                    /\ UNCHANGED <<closed, error>>
             [] e.type = "resume" ->
                    /\ loop' = IF connect_enabled THEN "id_open" ELSE "resume_hand"
                    /\ UNCHANGED <<closed, error>>
             [] e.type = "reconnect" ->
                    /\ loop' = "reconnect_hand"
                    /\ UNCHANGED <<closed, error>>
             [] e.type = "terminate" ->
                    /\ closed' = TRUE
                    /\ error' = "item_error"
                    /\ loop' = "raised"
             [] e.type = "clean_close" ->
                    /\ loop' = "returned"
                    /\ UNCHANGED <<closed, error>>
    /\ UNCHANGED <<owner_vars, enabled, shard_count, launch, shards_launched, emitted,
                   pending, holder, foreign, refusals, opened, asked,
                   granted, released>>

\* faulty variant of Dequeue: the next event is taken while the identify branch
\* still awaits its grant
Dequeue_concurrent ==
    /\ loop \in {"get", "id_wait"}
    /\ queue # <<>>
    /\ item' = Head(queue)
    /\ queue' = Tail(queue)
    /\ LET e == Head(queue)
       IN  CASE e.type = "close" ->
                    /\ closed' = TRUE
                    /\ error' = CloseError(e)
                    /\ loop' = IF CloseError(e) = "none" THEN "returned" ELSE "raised"
             [] e.type = "identify" ->
                    /\ loop' = IF connect_enabled THEN "id_open" ELSE "id_hand"
                    /\ UNCHANGED <<closed, error>>
             [] e.type = "resume" ->
                    /\ loop' = "resume_hand"
                    /\ UNCHANGED <<closed, error>>
             [] e.type = "reconnect" ->
                    /\ loop' = "reconnect_hand"
                    /\ UNCHANGED <<closed, error>>
             [] e.type = "terminate" ->
                    /\ closed' = TRUE
                    /\ error' = "item_error"
                    /\ loop' = "raised"
             [] e.type = "clean_close" ->
                    /\ loop' = "returned"
                    /\ UNCHANGED <<closed, error>>
    /\ UNCHANGED <<owner_vars, enabled, shard_count, launch, shards_launched, emitted,
                   pending, holder, foreign, refusals, opened, asked,
                   granted, released>>

\* connect: item = await queue.get(), then the branch on item.type up to its
\* first suspension on the coordinator or on a handshake
Dequeue ==
    /\ loop = "get"
    /\ queue # <<>>
    /\ item' = Head(queue)
    /\ queue' = Tail(queue)
    /\ LET e == Head(queue)
       IN  CASE e.type = "close" ->
                    /\ closed' = TRUE
                    /\ error' = CloseError(e)
                    /\ loop' = IF CloseError(e) = "none" THEN "returned" ELSE "raised"
             [] e.type = "identify" ->
                    /\ loop' = IF connect_enabled THEN "id_open" ELSE "id_hand"
                    /\ UNCHANGED <<closed, error>>
             [] e.type = "resume" ->
                    /\ loop' = "resume_hand"
                    /\ UNCHANGED <<closed, error>>
             [] e.type = "reconnect" ->
                    /\ loop' = "reconnect_hand"
                    /\ UNCHANGED <<closed, error>>
             [] e.type = "terminate" ->
                    /\ closed' = TRUE
                    /\ error' = "item_error"
                    /\ loop' = "raised"
             [] e.type = "clean_close" ->
                    /\ loop' = "returned"
                    /\ UNCHANGED <<closed, error>>
    /\ UNCHANGED <<owner_vars, enabled, shard_count, launch, shards_launched, emitted,
                   pending, holder, foreign, refusals, opened, asked,
                   granted, released>>

\* connect, identify: shard_manager = await get_shard_manager(); a refused
\* connection raises ConnectionRefusedError, which nothing in connect catches
IdentifyOpen ==
    /\ loop = "id_open"
    /\ opened' = opened + 1
    /\ \E r \in OpenOutcomes :
          IF r = "refused"
          THEN /\ loop' = "raised"
               /\ error' = "ConnectionRefusedError"
               /\ refusals' = refusals + 1
          ELSE /\ loop' = "id_ask"
               /\ UNCHANGED <<error, refusals>>
    /\ UNCHANGED <<owner_vars, enabled, shard_count, launch, shards_launched, queue, emitted,
                   item, closed, pending, holder, foreign, asked,
                   granted, released>>

\* faulty variant of IdentifyAsk: the reidentify asks without the priority flag
IdentifyAsk_nopriority ==
    /\ loop = "id_ask"
    /\ SendAsk("loop", item.shard, FALSE)
    /\ loop' = "id_wait"
    /\ UNCHANGED <<owner_vars, enabled, shard_count, launch, shards_launched, queue, emitted,
                   item, closed, error, holder, foreign, refusals, opened, granted, released>>

\* connect, identify: await shard_manager.ask_to_connect(item.shard.id, priority=True)
IdentifyAsk ==
    /\ loop = "id_ask"
    /\ SendAsk("loop", item.shard, TRUE)
    /\ loop' = "id_wait"
    /\ UNCHANGED <<owner_vars, enabled, shard_count, launch, shards_launched, queue, emitted,
                   item, closed, error, holder, foreign, refusals, opened, granted, released>>

\* connect, identify: ask_to_connect returns, item.shard.reidentify begins
IdentifyAdmitted ==
    /\ loop = "id_wait"
    /\ Admitted("loop", item.shard)
    /\ loop' = "id_hand"
    /\ UNCHANGED <<owner_vars, enabled, shard_count, launch, shards_launched, queue, emitted,
                   item, closed, error, pending, holder, foreign, refusals,
                   opened, asked, granted, released>>

\* connect, identify: await item.shard.reidentify(item.error) returns or raises
IdentifyHandshake ==
    /\ loop = "id_hand"
    /\ \E r \in HandshakeOutcomes :
          IF r = "raise"
          THEN /\ loop' = "raised"
               /\ error' = "handshake_error"
               /\ UNCHANGED item
          ELSE /\ loop' = IF connect_enabled THEN "id_release" ELSE "top"
               /\ item' = IF connect_enabled THEN item ELSE NoItem
               /\ UNCHANGED error
    /\ UNCHANGED <<owner_vars, enabled, shard_count, launch, shards_launched, queue, emitted,
                   closed, pending, holder, foreign, refusals, opened, asked, granted, released>>

\* connect, identify: await shard_manager.done_connecting(item.shard.id)
IdentifyRelease ==
    /\ loop = "id_release"
    /\ SendDone("loop", item.shard)
    /\ loop' = "top"
    /\ item' = NoItem
    /\ UNCHANGED <<owner_vars, enabled, shard_count, launch, shards_launched, queue, emitted,
                   closed, error, pending, foreign, refusals, opened, asked, granted>>

\* faulty variant of OtherHandshake: a handshake that succeeds leaves the client
\* with the one shard it has just reconnected
OtherHandshake_resharding ==
    /\ loop \in {"resume_hand", "reconnect_hand"}
    /\ \E r \in HandshakeOutcomes :
          IF r = "raise"
          THEN /\ loop' = "raised"
               /\ error' = "handshake_error"
               /\ UNCHANGED <<item, shard_count>>
          ELSE /\ loop' = "top"
               /\ item' = NoItem
               /\ shard_count' = 1
               /\ UNCHANGED error
    /\ UNCHANGED <<owner_vars, enabled, launch, shards_launched, queue, emitted,
                   closed, pending, holder, foreign, refusals, opened, asked, granted, released>>

\* connect, resume: await item.shard.reidentify(item.error)
\* connect, reconnect: await item.shard.reconnect()
OtherHandshake ==
    /\ loop \in {"resume_hand", "reconnect_hand"}
    /\ \E r \in HandshakeOutcomes :
          IF r = "raise"
          THEN /\ loop' = "raised"
               /\ error' = "handshake_error"
               /\ UNCHANGED item
          ELSE /\ loop' = "top"
               /\ item' = NoItem
               /\ UNCHANGED error
    /\ UNCHANGED <<owner_vars, enabled, shard_count, launch, shards_launched, queue, emitted,
                   closed, pending, holder, foreign, refusals, opened, asked, granted, released>>

\* ------------------------------------------------------------------ Next
Next ==
    \/ LaunchShards
    \/ \E s \in Shards : LaunchDelegate(s)
    \/ \E s \in Shards : LaunchOpen(s)
    \/ \E s \in Shards : LaunchAsk(s)
    \/ \E s \in Shards : LaunchIdentify(s)
    \/ \E s \in Shards : LaunchHandshake(s)
    \/ \E s \in Shards : LaunchRelease(s)
    \/ LaunchShardsReturn
    \/ Enqueue
    \/ ExternalClose
    \/ LoopTop
    \/ Dequeue
    \/ IdentifyOpen
    \/ IdentifyAsk
    \/ IdentifyAdmitted
    \/ IdentifyHandshake
    \/ IdentifyRelease
    \/ OtherHandshake
    \/ Grant
    \/ \E f \in ForeignIds : ForeignAsk(f)
    \/ \E f \in ForeignIds : ForeignIdentify(f)
    \/ \E f \in ForeignIds : ForeignDone(f)

Spec == Init /\ [][Next]_vars

\* The launch alone, up to the return of launch_shards, under the fairness of
\* the asyncio scheduler (a task that can run does run) and of a coordinator
\* and a fleet that answer: every step but a new request of another process.
NextLaunch ==
    \/ LaunchShards
    \/ \E s \in Shards : LaunchDelegate(s)
    \/ \E s \in Shards : LaunchOpen(s)
    \/ \E s \in Shards : LaunchAsk(s)
    \/ \E s \in Shards : LaunchIdentify(s)
    \/ \E s \in Shards : LaunchHandshake(s)
    \/ \E s \in Shards : LaunchRelease(s)
    \/ LaunchShardsReturn
    \/ Grant
    \/ \E f \in ForeignIds : ForeignAsk(f)
    \/ \E f \in ForeignIds : ForeignIdentify(f)
    \/ \E f \in ForeignIds : ForeignDone(f)

LaunchFair ==
    /\ Init
    /\ [][NextLaunch]_vars
    /\ WF_vars(LaunchShards)
    /\ WF_vars(LaunchShardsReturn)
    /\ WF_vars(Grant)
    /\ \A s \in AllShards :
          /\ WF_vars(LaunchDelegate(s))
          /\ WF_vars(LaunchOpen(s))
          /\ WF_vars(LaunchAsk(s))
          /\ WF_vars(LaunchIdentify(s))
          /\ WF_vars(LaunchHandshake(s))
          /\ WF_vars(LaunchRelease(s))
    /\ \A f \in ForeignIds :
          /\ WF_vars(ForeignIdentify(f))
          /\ WF_vars(ForeignDone(f))

\* The launch of the fleet [0, 1, 2, 3] with coordination enabled and no other
\* process at the coordinator, up to the return of launch_shards.
InitFleet ==
    /\ enabled = "true"
    /\ shard_count = Len(FleetShardIds)
    /\ launch = [s \in AllShards |-> "none"]
    /\ shards_launched = FALSE
    /\ queue = <<>>
    /\ emitted = 0
    /\ loop = "init"
    /\ item = NoItem
    /\ closed = FALSE
    /\ error = "none"
    /\ pending = <<>>
    /\ holder = {}
    /\ foreign = [f \in ForeignIds |-> "idle"]
    /\ refusals = 0
    /\ opened = 0
    /\ asked = ZeroCount
    /\ granted = ZeroCount
    /\ released = ZeroCount
    /\ InitOwner

NextFleet ==
    \/ LaunchShards
    \/ \E s \in Shards : LaunchOpen(s)
    \/ \E s \in Shards : LaunchAsk(s)
    \/ \E s \in Shards : LaunchIdentify(s)
    \/ \E s \in Shards : LaunchHandshake(s)
    \/ \E s \in Shards : LaunchRelease(s)
    \/ LaunchShardsReturn
    \/ Grant

FleetSpec == InitFleet /\ [][NextFleet]_vars

\* ================================================================ owner cog
\* Bot.owner_ids: self._sudo_ctx_var.get(self._elevated_owner_ids), read in the
\* context of handler m (sudo enabled)
owner_ids(m) ==
    IF message[m].var = Unset THEN elevated_owner_ids ELSE message[m].var[1]

\* is_true_owner: the author is one of config["owners"]
is_true_owner(m) == message[m].author \in Owners

\* the command has returned or raised: what is left is the end of process_commands
Finish(m, r) == [message EXCEPT ![m].pc = "finally", ![m].raised = r]

\* ctx.send: the message is sent, or the request fails
SendOutcomes == {"sent", "raise"}

\* the gateway delivers a message or a slash interaction: a new task, in a
\* fresh context, will handle it
MessageArrives(m, u, c, k) ==
    /\ message[m].pc = "idle"
    /\ k = "slash" => c = "other"
    /\ message' = [message EXCEPT ![m] =
                      [pc |-> "queued", author |-> u, cmd |-> c, kind |-> k,
                       var |-> Unset, token |-> Unset, raised |-> FALSE]]
    /\ UNCHANGED <<shard_vars, elevated_owner_ids, owner_sudo_tasks, blacklisted_users>>

\* process_commands up to invoke: token = self._sudo_ctx_var.set(self.owner_ids),
\* then the test of the blacklist; none of get_context and
\* handle_disabled_guild_message_commands suspends the task
ProcessCommands(m) ==
    /\ message[m].pc = "queued"
    /\ message[m].kind = "message"
    /\ message' = [message EXCEPT
                      ![m].token = message[m].var,
                      ![m].var = SetTo(owner_ids(m)),
                      ![m].pc = IF blacklisted_users[message[m].author] # NoReason
                                THEN "dropped"
                                ELSE "invoking"]
    /\ UNCHANGED <<shard_vars, elevated_owner_ids, owner_sudo_tasks, blacklisted_users>>

\* faulty variant of ProcessSlashCommands: the blacklist is not tested
ProcessSlashCommands_unchecked(m) ==
    /\ message[m].pc = "queued"
    /\ message[m].kind = "slash"
    /\ message' = [message EXCEPT
                      ![m].token = message[m].var,
                      ![m].pc = "invoking"]
    /\ UNCHANGED <<shard_vars, elevated_owner_ids, owner_sudo_tasks, blacklisted_users>>

\* process_slash_commands up to invoke: the test of the blacklist
ProcessSlashCommands(m) ==
    /\ message[m].pc = "queued"
    /\ message[m].kind = "slash"
    /\ message' = [message EXCEPT
                      ![m].token = message[m].var,
                      ![m].pc = IF blacklisted_users[message[m].author] # NoReason
                                THEN "dropped"
                                ELSE "invoking"]
    /\ UNCHANGED <<shard_vars, elevated_owner_ids, owner_sudo_tasks, blacklisted_users>>

\* su, up to `await ctx.send(...)`
Su(m) ==
    /\ message[m].pc = "invoking"
    /\ message[m].cmd = "su"
    /\ IF ~is_true_owner(m)
       THEN /\ message' = Finish(m, TRUE)
            /\ UNCHANGED elevated_owner_ids
       ELSE IF message[m].author \notin owner_ids(m)
       THEN /\ elevated_owner_ids' = elevated_owner_ids \cup {message[m].author}
            /\ message' = [message EXCEPT ![m].pc = "su_sending"]
       ELSE /\ message' = Finish(m, FALSE)
            /\ UNCHANGED elevated_owner_ids
    /\ UNCHANGED <<shard_vars, owner_sudo_tasks, blacklisted_users>>

\* su, after ctx.send: the old timed_unsu task is cancelled and a new one created
SuSend(m) ==
    /\ message[m].pc = "su_sending"
    /\ \E r \in SendOutcomes :
          IF r = "raise"
          THEN /\ message' = Finish(m, TRUE)
               /\ UNCHANGED owner_sudo_tasks
          ELSE /\ owner_sudo_tasks' = owner_sudo_tasks \cup {message[m].author}
               /\ message' = Finish(m, FALSE)
    /\ UNCHANGED <<shard_vars, elevated_owner_ids, blacklisted_users>>

\* unsu
Unsu(m) ==
    /\ message[m].pc = "invoking"
    /\ message[m].cmd = "unsu"
    /\ IF ~is_true_owner(m)
       THEN /\ message' = Finish(m, TRUE)
            /\ UNCHANGED elevated_owner_ids
       ELSE /\ elevated_owner_ids' =
                  IF message[m].author \in owner_ids(m)
                  THEN elevated_owner_ids \ {message[m].author}
                  ELSE elevated_owner_ids
            /\ message' = Finish(m, FALSE)
    /\ UNCHANGED <<shard_vars, owner_sudo_tasks, blacklisted_users>>

\* sudo: sets the context variable and dispatches a copy of the message with
\* command c; the new task n starts in a copy of the current context
Sudo(m, n, c) ==
    /\ message[m].pc = "invoking"
    /\ message[m].cmd = "sudo"
    /\ IF ~is_true_owner(m)
       THEN message' = Finish(m, TRUE)
       ELSE LET ids == elevated_owner_ids \cup {message[m].author}
            IN  /\ n # m
                /\ message[n].pc = "idle"
                /\ message' = [message EXCEPT
                      ![m].var = SetTo(ids),
                      ![m].pc = "finally",
                      ![n] = [pc |-> "queued", author |-> message[m].author,
                              cmd |-> c, kind |-> "message", var |-> SetTo(ids),
                              token |-> Unset, raised |-> FALSE]]
    /\ UNCHANGED <<shard_vars, elevated_owner_ids, owner_sudo_tasks, blacklisted_users>>

\* blacklist add: commands.is_owner() on the group, then the body
BlacklistAdd(m, user, reason) ==
    /\ message[m].pc = "invoking"
    /\ message[m].cmd = "blacklist_add"
    /\ IF message[m].author \notin owner_ids(m)
       THEN /\ message' = Finish(m, TRUE)
            /\ UNCHANGED blacklisted_users
       ELSE /\ blacklisted_users' =
                  IF blacklisted_users[user] # NoReason
                  THEN blacklisted_users
                  ELSE [blacklisted_users EXCEPT ![user] = reason]
            /\ message' = Finish(m, FALSE)
    /\ UNCHANGED <<shard_vars, elevated_owner_ids, owner_sudo_tasks>>

\* blacklist remove
BlacklistRemove(m, user) ==
    /\ message[m].pc = "invoking"
    /\ message[m].cmd = "blacklist_remove"
    /\ IF message[m].author \notin owner_ids(m)
       THEN /\ message' = Finish(m, TRUE)
            /\ UNCHANGED blacklisted_users
       ELSE /\ blacklisted_users' = [blacklisted_users EXCEPT ![user] = NoReason]
            /\ message' = Finish(m, FALSE)
    /\ UNCHANGED <<shard_vars, elevated_owner_ids, owner_sudo_tasks>>

\* any other command: returns or raises
OtherCommand(m) ==
    /\ message[m].pc = "invoking"
    /\ message[m].cmd = "other"
    /\ \E r \in BOOLEAN : message' = Finish(m, r)
    /\ UNCHANGED <<shard_vars, elevated_owner_ids, owner_sudo_tasks, blacklisted_users>>

\* faulty variant of ProcessEnd: the context variable is not reset
ProcessEnd_noreset(m) ==
    /\ message[m].pc \in {"dropped", "finally"}
    /\ message' = [message EXCEPT ![m] = [NoMessage EXCEPT !.var = message[m].var]]
    /\ UNCHANGED <<shard_vars, elevated_owner_ids, owner_sudo_tasks, blacklisted_users>>

\* process_commands, finally: self._sudo_ctx_var.reset(token); the task ends
ProcessEnd(m) ==
    /\ message[m].pc \in {"dropped", "finally"}
    /\ message' = [message EXCEPT ![m] = [NoMessage EXCEPT !.var = message[m].token]]
    /\ UNCHANGED <<shard_vars, elevated_owner_ids, owner_sudo_tasks, blacklisted_users>>

\* timed_unsu, after its sleep
timed_unsu(u) ==
    /\ u \in owner_sudo_tasks
    /\ elevated_owner_ids' = elevated_owner_ids \ {u}
    /\ owner_sudo_tasks' = owner_sudo_tasks \ {u}
    /\ UNCHANGED <<shard_vars, blacklisted_users, message>>

\* The owner cog with sudo enabled, the shards left alone.
InitSudo ==
    /\ Init
    /\ enabled = "false"
    /\ shard_count = 1

NextSudo ==
    \/ \E m \in Handlers, u \in Users, c \in Commands, k \in {"message", "slash"} :
          MessageArrives(m, u, c, k)
    \/ \E m \in Handlers : ProcessCommands(m)
    \/ \E m \in Handlers : ProcessSlashCommands(m)
    \/ \E m \in Handlers : Su(m)
    \/ \E m \in Handlers : SuSend(m)
    \/ \E m \in Handlers : Unsu(m)
    \/ \E m \in Handlers, n \in Handlers, c \in Commands : Sudo(m, n, c)
    \/ \E m \in Handlers, u \in Users, r \in Reasons : BlacklistAdd(m, u, r)
    \/ \E m \in Handlers, u \in Users : BlacklistRemove(m, u)
    \/ \E m \in Handlers : OtherCommand(m)
    \/ \E m \in Handlers : ProcessEnd(m)
    \/ \E u \in Users : timed_unsu(u)

SudoSpec == InitSudo /\ [][NextSudo]_vars

\* ================================================================ claims

\* the handshakes in progress that open a new gateway session: launches,
\* reidentifies and reconnects of this process, and launches of other processes
Identifying ==
    {<<"launch", s>> : s \in {r \in Shards : launch[r] = "identifying"}}
    \cup (IF loop \in {"id_hand", "reconnect_hand"} THEN {<<"loop", item.shard>>} ELSE {})
    \cup {<<"foreign", f>> : f \in {g \in ForeignIds : foreign[g] = "identifying"}}

\* connect() has ended
Ended == loop \in {"returned", "raised"}

\* connect() is inside the identify branch
InIdentifyBranch == loop \in {"id_open", "id_ask", "id_wait", "id_hand", "id_release"}

\* C1: with coordination enabled, a shard is inside an identify handshake
\* (launch_shard's, or the reidentify of the connect loop) only while the
\* coordinator holds a granted, unreleased ticket for that shard
C1_AdmittedBeforeIdentify ==
    enabled = "true" =>
        /\ \A s \in Shards : launch[s] = "identifying" => Admitted("launch", s)
        /\ loop = "id_hand" => Admitted("loop", item.shard)

C1_Witness ==
    /\ enabled = "true"
    /\ loop = "id_hand"
    /\ Admitted("loop", item.shard)
    /\ \A s \in Shards : launch[s] = "done"

\* C2: once a shard's task has finished (launch_shard returned or raised, the
\* connect loop has left the identify branch), as many done_connecting calls
\* as granted ask_to_connect calls have been made for the shard
C2_ReleasedEqualsGranted ==
    \A s \in Shards :
        /\ Finished(s) => released["launch"][s] = granted["launch"][s]
        /\ (loop # "launching" /\ ~InIdentifyBranch)
              => released["loop"][s] = granted["loop"][s]

\* C3: with coordination enabled, at most one handshake that opens a new
\* gateway session is in progress in the whole fleet
C3_OneIdentifyAtATime ==
    enabled = "true" => Cardinality(Identifying) <= 1

\* C4: with shard_manager.enabled = false no coordinator connection is opened
\* and no ask_to_connect or done_connecting is sent, in launch and in connect
C4_DisabledNoCoordinatorIO ==
    enabled = "false" =>
        /\ opened = 0
        /\ \A o \in Callers, s \in AllShards : asked[o][s] = 0 /\ released[o][s] = 0
        /\ \A i \in 1 .. Len(pending) : pending[i].owner \notin Callers
        /\ \A t \in holder : t.owner \notin Callers

C4_Witness ==
    /\ enabled = "false"
    /\ shards_launched
    /\ loop = "id_hand"
    /\ opened = 0

\* C5: after a refused open_connection the next step of launch_shard is a
\* delay, never another open_connection
C5_DelayBetweenAttempts ==
    [][\A s \in AllShards :
          (launch[s] = "retry" /\ launch'[s] # launch[s]) => launch'[s] = "sleeping"]_vars

\* C6: a refused coordinator connection never ends connect() with an error
C6_RefusalNeverSurfaces ==
    error # "ConnectionRefusedError"

\* C7: a refused open_connection creates no admission request, the accepted
\* retry creates exactly one: launch_shard sends at most one ask_to_connect
\* per shard, none before a connection is accepted, and has sent exactly one
\* ask_to_connect and one done_connecting when it returns; and, the refusals
\* being finitely many, every launch_shard does return unless a handshake raises
C7_RefusedThenOnePair ==
    /\ [](\A s \in Shards :
            /\ asked["launch"][s] <= 1
            /\ launch[s] \in {"start", "retry", "connected"} => asked["launch"][s] = 0
            /\ (enabled = "true" /\ launch[s] = "done")
                  => /\ asked["launch"][s] = 1
                     /\ granted["launch"][s] = 1
                     /\ released["launch"][s] = 1)
    /\ <>(\/ \A s \in Shards : launch[s] = "done"
          \/ \E s \in Shards : launch[s] = "raised")

C7_Witness ==
    /\ enabled = "true"
    /\ shard_count = 1
    /\ refusals = 1
    /\ launch[0] = "done"
    /\ asked["launch"][0] = 1
    /\ released["launch"][0] = 1

\* C8: a Close event with close code 1000 makes connect() return; from then
\* on the loop handles no event and sends no ask_to_connect
C8_NormalClosureStops ==
    /\ []((item.type = "close" /\ item.code = NormalClosure)
            => (loop = "returned" /\ error = "none" /\ closed))
    /\ [][(item.type = "close" /\ item.code = NormalClosure)
            => (loop' = loop /\ item' = item /\ queue' = queue
                /\ asked' = asked /\ released' = released)]_vars

C8_Witness ==
    /\ item.type = "close"
    /\ item.code = NormalClosure
    /\ loop = "returned"
    /\ queue # <<>>

\* C9: a Close event whose ConnectionClosed error has code 4014 makes connect()
\* raise PrivilegedIntentsRequired
C9_PrivilegedIntentsRaised ==
    (item.type = "close" /\ item.code = PrivilegedIntentsCode)
        => error = "PrivilegedIntentsRequired"

C11_TerminateRaises ==
    /\ [](item.type = "terminate"
            => (loop = "raised" /\ error = "item_error" /\ closed))
    /\ [][item.type = "terminate"
            => (loop' = loop /\ item' = item /\ queue' = queue /\ error' = error)]_vars

C11_Witness ==
    /\ item.type = "terminate"
    /\ loop = "raised"
    /\ error = "item_error"
    /\ closed
    /\ queue # <<>>

\* C12: a Close event with the normal closure code, and a CleanClose event,
\* make connect() return without an exception
C12_CleanShutdownReturns ==
    (\/ item.type = "clean_close"
     \/ (item.type = "close" /\ item.code = NormalClosure))
        => (loop = "returned" /\ error = "none")

C12_Witness ==
    /\ item.type = "clean_close"
    /\ loop = "returned"
    /\ error = "none"

C14_ResumeBypassesGate ==
    /\ [](item.type = "resume" => loop \in {"resume_hand", "raised"})
    /\ [][(item.type = "resume" \/ item'.type = "resume")
            => (opened' = opened /\ asked' = asked /\ released' = released)]_vars

C14_Witness ==
    /\ enabled = "true"
    /\ item.type = "resume"
    /\ loop = "resume_hand"
    /\ holder = {}

\* C15: with coordination enabled, the loop invokes reconnect on a shard only
\* while the coordinator holds a granted, unreleased ticket for that shard
C15_ReconnectAdmitted ==
    (enabled = "true" /\ loop = "reconnect_hand") => Admitted("loop", item.shard)

C17_PriorityFlags ==
    \A t \in {pending[i] : i \in 1 .. Len(pending)} \cup holder :
        /\ t.owner = "loop" => t.priority
        /\ t.owner = "launch" => ~t.priority

C17_Witness ==
    /\ \E i \in 1 .. Len(pending) :
          /\ pending[i].owner = "loop"
          /\ pending[i].priority
    /\ \E t \in holder :
          /\ t.owner = "launch"
          /\ ~t.priority

\* C18: the coordinator never grants the slot to a request without priority
\* while a request with priority is pending: a priority request is admitted no
\* later than every non-priority request pending with it
C18_PriorityServedFirst ==
    [][\A t \in holder' \ holder :
          ~t.priority => \A i \in 1 .. Len(pending) : ~pending[i].priority]_vars

C18_Witness ==
    /\ holder = {}
    /\ Len(pending) = 2
    /\ ~pending[1].priority
    /\ pending[2].priority
    /\ pending[2].owner = "loop"
    /\ NextIndex = 2

\* C19: launching the fleet [0, 1, 2, 3] with coordination enabled: the
\* coordinator holds one shard at a time, each shard asks once, and once
\* launch_shards has returned and set shards_launched every shard's
\* ask_to_connect has been granted and answered by its done_connecting
C19_FleetPairsComplete ==
    /\ Cardinality(holder) <= 1
    /\ \A s \in Shards : asked["launch"][s] <= 1
    /\ shards_launched =>
          \A s \in Shards :
              /\ asked["launch"][s] = 1
              /\ granted["launch"][s] = 1
              /\ released["launch"][s] = 1

\* C20: when a shard's launch task has raised, launch_shards does not end as a
\* success: shards_launched stays unset and, once launch_shards is over, the
\* error has been raised out of connect
C20_LaunchErrorPropagates ==
    (\E s \in Shards : launch[s] = "raised") =>
        /\ ~shards_launched
        /\ loop # "launching" => (loop = "raised" /\ error = "launch_error")

\* C21: once connect() has ended, by an error raised out of it (a fatal
\* Terminate, an exception or a cancellation delivered inside a handshake) or
\* by a normal return, the coordinator holds no granted ticket of this process
C21_NoTicketHeldAfterEnd ==
    Ended => ~\E t \in holder : t.owner \in Callers

\* the requests of this process for shard s that were sent and not yet released
Outstanding(s) ==
    (asked["launch"][s] - released["launch"][s])
        + (asked["loop"][s] - released["loop"][s])

\* C22: at no time has this process two outstanding ask_to_connect requests
\* for the same shard, across the launch and every later Identify event
C22_OneOutstandingPerShard ==
    \A s \in Shards : Outstanding(s) <= 1

C22_Witness ==
    /\ asked["launch"][0] = 1
    /\ released["launch"][0] = 1
    /\ asked["loop"][0] = 2
    /\ released["loop"][0] = 1
    /\ Outstanding(0) = 1

\* C23: the connect loop handles one event at a time, in arrival order: an
\* event is taken in hand only when the handling of the previous one is over,
\* it is the oldest of the queue, and events only join the queue at its end
C23_OneEventAtATime ==
    /\ [][(item' # item /\ item' # NoItem) =>
             /\ item = NoItem
             /\ loop = "get"
             /\ queue # <<>>
             /\ item' = Head(queue)
             /\ queue' = Tail(queue)]_vars
    /\ [][queue' # queue =>
             \/ (queue # <<>> /\ queue' = Tail(queue))
             \/ \E e \in Events : queue' = Append(queue, e)]_vars

C23_Witness ==
    /\ loop = "resume_hand"
    /\ item.type = "resume"
    /\ queue # <<>>
    /\ Head(queue).shard = item.shard
    /\ emitted = MaxEvents

\* C24: shards_launched is set only when every launch task has finished, with
\* success or with an exception, and the connect loop has no event in hand and
\* is not past launch_shards before the flag is set
C24_LaunchedAfterAllFinished ==
    /\ shards_launched => \A s \in Shards : launch[s] \in {"done", "raised"}
    /\ (item # NoItem \/ loop \notin {"init", "launching", "raised"})
            => shards_launched

C24_Witness ==
    /\ shard_count = 2
    /\ launch[0] = "raised"
    /\ launch[1] = "done"
    /\ shards_launched
    /\ item.type = "resume"

C26_ShardSetReadOnly ==
    [][loop # "init" =>
          /\ shard_count' = shard_count
          /\ shard_ids' = shard_ids]_vars

C26_Witness ==
    /\ shard_count = 2
    /\ shard_ids = <<0, 1>>
    /\ emitted = MaxEvents
    /\ queue = <<>>
    /\ loop = "get"
    /\ granted["loop"][1] = 1
    /\ released["loop"][1] = 1

\* C27: whenever the launch runs in pass-through mode, connect is in
\* pass-through mode too: its Identify branch opens no coordinator connection
\* and sends no request
C27_LaunchAndConnectAgree ==
    ~launch_enabled =>
        /\ opened = 0
        /\ loop \notin {"id_open", "id_ask", "id_wait", "id_release"}

\* C28: with sudo enabled and no su command half-way, every id of the global
\* elevated set has a pending timed_unsu task in _owner_sudo_tasks
C28_ElevatedHasTimer ==
    (\A m \in Handlers : message[m].pc # "su_sending")
        => elevated_owner_ids \subseteq owner_sudo_tasks

\* C29: the sudo command changes neither the global elevated set nor the timer
\* table; it sets the owner set of the re-dispatched message's context to the
\* elevated ids plus the author; and when the processing of a message ends,
\* with a return or an exception, its context's owner set is back to the value
\* it had before process_commands
C29_SudoOneOff ==
    /\ [][\A m \in Handlers :
            (message[m].pc = "invoking" /\ message[m].cmd = "sudo"
                /\ message'[m].pc # "invoking")
            => /\ elevated_owner_ids' = elevated_owner_ids
               /\ owner_sudo_tasks' = owner_sudo_tasks
               /\ \A n \in Handlers \ {m} :
                     message'[n] # message[n] =>
                        /\ message'[n].pc = "queued"
                        /\ message'[n].author = message[m].author
                        /\ message'[n].var =
                              SetTo(elevated_owner_ids \cup {message[m].author})]_vars
    /\ [][\A m \in Handlers :
            (message[m].pc # "idle" /\ message'[m].pc = "idle")
            => message'[m].var = message[m].token]_vars
    /\ [](\A m \in Handlers :
            message[m].token # Unset =>
                /\ message[m].author \in Owners
                /\ message[m].author \in message[m].token[1])

C29_Witness ==
    /\ elevated_owner_ids = {}
    /\ owner_sudo_tasks = {}
    /\ \E m \in Handlers, n \in Handlers :
          /\ m # n
          /\ message[m].pc = "idle"
          /\ message[m].var = Unset
          /\ message[n].pc = "finally"
          /\ message[n].cmd = "blacklist_add"
          /\ ~message[n].raised
          /\ blacklisted_users[2] # NoReason
          /\ message[n].var = SetTo({1})
          /\ message[n].token = SetTo({1})

\* C30: a message or a slash interaction reaches invoke exactly when its author
\* is not in blacklisted_users at that time, whatever blacklist add and remove
\* commands ran before; and blacklist add leaves the reason of a user who is
\* already blacklisted as it is
C30_BlacklistEnforced ==
    /\ [][\A m \in Handlers :
            /\ (message[m].pc # "invoking" /\ message'[m].pc = "invoking")
                  => /\ message[m].pc = "queued"
                     /\ blacklisted_users[message[m].author] = NoReason
            /\ (message[m].pc = "queued" /\ message'[m].pc # "queued")
                  => message'[m].pc =
                        IF blacklisted_users[message[m].author] = NoReason
                        THEN "invoking"
                        ELSE "dropped"]_vars
    /\ [][\A m \in Handlers, u \in Users :
            (message[m].cmd = "blacklist_add" /\ message[m].pc = "invoking"
                /\ message'[m].pc # "invoking" /\ blacklisted_users[u] # NoReason)
            => blacklisted_users'[u] = blacklisted_users[u]]_vars

C30_Witness ==
    \E m \in Handlers, n \in Handlers :
        /\ message[m].pc = "dropped"
        /\ message[m].kind = "slash"
        /\ blacklisted_users[message[m].author] = "spam"
        /\ message[n].pc = "invoking"
        /\ message[n].cmd = "blacklist_add"
        /\ message[n].author \in owner_ids(n)

====
